---- MODULE Spec2Model ----
(***************************************************************************)
(* Model of the proposal apply workflow of the RefactorIQ backend:         *)
(*   api/v1/proposals.py        apply_proposal, reject_proposal            *)
(*   services/proposal_service  apply_proposal_direct,                     *)
(*                              validate_proposal_safety                   *)
(*   services/github_service    create_proposal_pr,                        *)
(*                              _create_branch_with_proposal_changes       *)
(*   services/git_operations    clone/branch/apply/commit/push/cleanup     *)
(*   utils/patch_utils          PatchValidator                             *)
(*                                                                         *)
(* Every request handler is a coroutine; the steps of the model are the    *)
(* stretches of a handler between two awaits on the database, on a git     *)
(* subprocess or on the hosting provider, which is where the event loop    *)
(* may run another request.  The outcome of a subprocess, of a database    *)
(* commit and of an HTTP call is an input of the environment.              *)
(***************************************************************************)
EXTENDS Integers, Sequences, FiniteSets, TLC

(* ------------------------------ bounds -------------------------------- *)
NumRequests == 2

Requests == 1..NumRequests
\* names of clone directories: a request creates at most one
WorkspaceIds == 1..NumRequests
\* the longest texts given to validate_patch_safety, and to
\* validate_patch_format and parse_unified_diff, in lines
MaxSafetyLines == 2
MaxDiffLines == 4

(* --------------------------- program constants ------------------------ *)
None == "None"
ConfidenceThreshold == 7            \* 0.7, in tenths

PENDING == "pending"
VALIDATING == "validating"
APPLYING == "applying"
APPLIED == "applied"
REJECTED == "rejected"
FAILED == "failed"
PR_CREATED == "pr_created"
ProposalStatus ==
    {PENDING, VALIDATING, APPLYING, APPLIED, REJECTED, FAILED, PR_CREATED}

(* ------------------------------ patch text ---------------------------- *)
(* A text is the sequence of its characters.  The texts of the model are  *)
(* made of a few lines, joined by line feeds; str.strip, str.split,       *)
(* str.startswith and the regular expressions of patch_utils.py are       *)
(* computed on the characters.                                            *)
NL == "\n"
\* what str.strip removes and \s matches
Whitespace == {" ", "\t", "\n", "\r"}
Digits == <<"0", "1", "2", "3", "4", "5", "6", "7", "8", "9">>
LowerCase ==
    <<"a", "b", "c", "d", "e", "f", "g", "h", "i", "j", "k", "l", "m", "n",
      "o", "p", "q", "r", "s", "t", "u", "v", "w", "x", "y", "z">>
UpperCase ==
    <<"A", "B", "C", "D", "E", "F", "G", "H", "I", "J", "K", "L", "M", "N",
      "O", "P", "Q", "R", "S", "T", "U", "V", "W", "X", "Y", "Z">>

startswith(line, prefix) ==
    /\ Len(line) >= Len(prefix)
    /\ SubSeq(line, 1, Len(prefix)) = prefix

\* str.strip(): without the leading and trailing whitespace
strip(text) ==
    LET kept == {i \in DOMAIN text : text[i] \notin Whitespace}
    IN IF kept = {} THEN <<>>
       ELSE SubSeq(text,
                   CHOOSE i \in kept : \A j \in kept : i <= j,
                   CHOOSE i \in kept : \A j \in kept : j <= i)

\* str.split('\n'): the pieces between the line feeds, at least one piece
RECURSIVE split(_)
split(text) ==
    LET feeds == {i \in DOMAIN text : text[i] = NL}
    IN IF feeds = {} THEN <<text>>
       ELSE LET i == CHOOSE f \in feeds : \A g \in feeds : f <= g
            IN <<SubSeq(text, 1, i - 1)>>
                   \o split(SubSeq(text, i + 1, Len(text)))

\* '\n'.join(lines)
RECURSIVE join(_)
join(lines) ==
    IF Len(lines) = 0 THEN <<>>
    ELSE IF Len(lines) = 1 THEN lines[1]
    ELSE lines[1] \o <<NL>> \o join(Tail(lines))

(* ------------------------- regular expressions ------------------------ *)
(* A regular expression is a set of alternatives; an alternative is a     *)
(* sequence of items; an item is a class of characters, or with neg the   *)
(* characters outside it, taken once ("1") or any number of times ("*").  *)
(* x+ is x followed by x*.                                                *)
Item(cls, q) == [cls |-> cls, neg |-> FALSE, q |-> q]
One(cls) == <<Item(cls, "1")>>
Star(cls) == <<Item(cls, "*")>>
Plus(cls) == <<Item(cls, "1"), Item(cls, "*")>>
\* [^...]+
PlusNot(cls) == <<[Item(cls, "1") EXCEPT !.neg = TRUE],
                 [Item(cls, "*") EXCEPT !.neg = TRUE]>>
\* a letter under re.IGNORECASE
IgnoreCase(c) ==
    {c} \cup {UpperCase[i] : i \in {j \in DOMAIN LowerCase : LowerCase[j] = c}}
        \cup {LowerCase[i] : i \in {j \in DOMAIN UpperCase : UpperCase[j] = c}}
\* literal characters, under re.IGNORECASE and as written
Word(chars) == [i \in DOMAIN chars |-> Item(IgnoreCase(chars[i]), "1")]
Exact(chars) == [i \in DOMAIN chars |-> Item({chars[i]}, "1")]

\* the items from the k-th on match the string at position i
RECURSIVE MatchHere(_, _, _, _)
MatchHere(pat, k, string, i) ==
    IF k > Len(pat) THEN TRUE
    ELSE LET here == /\ i <= Len(string)
                     /\ (string[i] \in pat[k].cls) # pat[k].neg
         IN IF pat[k].q = "1"
            THEN here /\ MatchHere(pat, k + 1, string, i + 1)
            ELSE \/ MatchHere(pat, k + 1, string, i)
                 \/ here /\ MatchHere(pat, k, string, i + 1)

re_match(regex, string) == \E pat \in regex : MatchHere(pat, 1, string, 1)
re_search(regex, string) ==
    \E pat \in regex, i \in 1..(Len(string) + 1) :
        MatchHere(pat, 1, string, i)

(* --------------------------- lines of the texts ----------------------- *)
L_FileA == <<"-", "-", "-", " ", "a", "/", "a", ".", "p", "y">>
L_FileB == <<"+", "+", "+", " ", "b", "/", "a", ".", "p", "y">>
L_FileOther == <<"-", "-", "-", " ", "o", "l", "d", ".", "p", "y">>
L_Chunk ==
    <<"@", "@", " ", "-", "1", ",", "1", " ", "+", "1", ",", "2", " ", "@",
      "@">>
L_Chunk1 == <<"@", "@", " ", "-", "1", " ", "+", "1", " ", "@", "@">>
L_BadChunk == <<"@", "@", " ", "b", "a", "d", " ", "@", "@">>
L_Del == <<"-", "x", "=", "1">>
L_Add == <<"+", "x", "=", "1">>
L_Add2 == <<"+", "y", "=", "2">>
L_Ctx == <<" ", "x", "=", "1">>
L_Blank == <<>>
L_RmRf ==
    <<"+", "r", "m", " ", "-", "r", "f", " ", "/", "t", "m", "p", "/", "x">>
L_Rm == <<"+", "r", "m">>
L_DashRf == <<"-", "r", "f", " ", "x">>
L_RmCaps == <<"+", "R", "M", "\t", "-", "R", "F", " ", "x">>
L_RmJoined == <<"+", "r", "m", "-", "r", "f">>
L_Sudo == <<"+", "s", "u", "d", "o">>
L_Eval ==
    <<"+", "e", "v", "a", "l", " ", "(", "o", "s", ".", "s", "y", "s", "t",
      "e", "m", "(", "c", ")", ")">>
L_Subprocess ==
    <<"+", "s", "u", "b", "p", "r", "o", "c", "e", "s", "s", ".", "r", "u",
      "n", "(", "c", ",", " ", "s", "h", "e", "l", "l", "=", "T", "r", "u",
      "e", ")">>
L_Password ==
    <<"+", "p", "a", "s", "s", "w", "o", "r", "d", " ", "=", " ", "'", "p",
      "w", "'">>
L_EmptySecret ==
    <<"+", "s", "e", "c", "r", "e", "t", " ", "=", " ", "'", "'">>
L_Todo == <<"+", "#", " ", "T", "O", "D", "O", " ", "l", "a", "t", "e", "r">>
L_Print ==
    <<"+", "p", "r", "i", "n", "t", "(", "x", ")", " ", "#", " ", "t", "o",
      "d", "o">>

GoodPatch == join(<<L_FileA, L_FileB, L_Chunk, L_Del, L_Add, L_Add2>>)
UnsafePatch == join(<<L_FileA, L_FileB, L_Chunk, L_Del, L_RmRf>>)
BadChunkPatch == join(<<L_FileA, L_FileB, L_BadChunk, L_Add>>)
PatchTexts == {GoodPatch, UnsafePatch, BadChunkPatch}
Confidences == {5, 6, 7}

\* the lines of the texts given to validate_patch_format and
\* parse_unified_diff, and of those given to validate_patch_safety
DiffLines == {L_FileA, L_FileOther, L_Chunk, L_Chunk1, L_BadChunk, L_Del,
              L_Add2, L_Ctx, L_Blank}
SafetyLines == {L_Add, L_RmRf, L_Rm, L_DashRf, L_RmCaps, L_RmJoined, L_Sudo,
                L_Eval, L_Subprocess, L_Password, L_EmptySecret, L_Todo,
                L_Print}

(* ------------------------ utils/patch_utils ---------------------------- *)
DigitSet == {Digits[i] : i \in DOMAIN Digits}
Quotes == {"'", "\""}

\* validate_patch_safety, lines 136-146 and 157-163
dangerous_patterns == <<
    [pattern |-> "rm\\s+-rf",
     regex |-> {Word(<<"r", "m">>) \o Plus(Whitespace)
             \o Word(<<"-", "r", "f">>)}],
    [pattern |-> "sudo\\s+",
     regex |-> {Word(<<"s", "u", "d", "o">>) \o Plus(Whitespace)}],
    [pattern |-> "eval\\s*\\(",
     regex |-> {Word(<<"e", "v", "a", "l">>) \o Star(Whitespace)
             \o Word(<<"(">>)}],
    [pattern |-> "exec\\s*\\(",
     regex |-> {Word(<<"e", "x", "e", "c">>) \o Star(Whitespace)
             \o Word(<<"(">>)}],
    [pattern |-> "__import__",
     regex |-> {Word(<<"_", "_", "i", "m", "p", "o", "r", "t", "_", "_">>)}],
    [pattern |-> "open\\s*\\([\\'\"][\\/\\\\]",
     regex |-> {Word(<<"o", "p", "e", "n">>) \o Star(Whitespace)
             \o Word(<<"(">>)
                    \o One(Quotes) \o One({"/", "\\"})}],
    [pattern |-> "os\\.system",
     regex |-> {Word(<<"o", "s", ".", "s", "y", "s", "t", "e", "m">>)}],
    [pattern |-> "subprocess\\.",
     regex |-> {Word(<<"s", "u", "b", "p", "r", "o", "c", "e", "s", "s",
                       ".">>)}],
    [pattern |-> "shell=True",
     regex |-> {Word(<<"s", "h", "e", "l", "l", "=", "T", "r", "u",
                       "e">>)}] >>

\* \s*=\s*['"][^'"]+['"]
AssignedLiteral ==
    Star(Whitespace) \o Word(<<"=">>) \o Star(Whitespace) \o One(Quotes)
        \o PlusNot(Quotes) \o One(Quotes)

mistake_patterns == <<
    [pattern |-> "password\\s*=\\s*[\\'\"][^\\'\"]+[\\'\"]",
     regex |-> {Word(<<"p", "a", "s", "s", "w", "o", "r", "d">>)
             \o AssignedLiteral}],
    [pattern |-> "api_?key\\s*=\\s*[\\'\"][^\\'\"]+[\\'\"]",
     regex |-> {Word(<<"a", "p", "i", "_", "k", "e", "y">>)
             \o AssignedLiteral,
                Word(<<"a", "p", "i", "k", "e", "y">>) \o AssignedLiteral}],
    [pattern |-> "secret\\s*=\\s*[\\'\"][^\\'\"]+[\\'\"]",
     regex |-> {Word(<<"s", "e", "c", "r", "e", "t">>) \o AssignedLiteral}],
    [pattern |-> "TODO|FIXME|HACK",
     regex |-> {Word(<<"T", "O", "D", "O">>),
                Word(<<"F", "I", "X", "M", "E">>),
                Word(<<"H", "A", "C", "K">>)}],
    [pattern |-> "console\\.log|print\\s*\\(",
     regex |-> {Word(<<"c", "o", "n", "s", "o", "l", "e", ".", "l", "o",
                       "g">>),
                Word(<<"p", "r", "i", "n", "t">>) \o Star(Whitespace)
                        \o Word(<<"(">>)}] >>

\* @@ -\d+(?:,\d+)? \+\d+(?:,\d+)? @@
ChunkHeaderRegex ==
    {Exact(<<"@", "@", " ", "-">>) \o Plus(DigitSet) \o old_count
         \o Exact(<<" ", "+">>) \o Plus(DigitSet) \o new_count
                 \o Exact(<<" ", "@", "@">>) :
     old_count \in {<<>>, Exact(<<",">>) \o Plus(DigitSet)},
     new_count \in {<<>>, Exact(<<",">>) \o Plus(DigitSet)}}

StartsWithFileHeader(line) == startswith(line, <<"-", "-", "-", " ">>)
StartsWithAtAt(line) == startswith(line, <<"@", "@">>)
MatchesChunkHeader(line) == re_match(ChunkHeaderRegex, line)

\* one entry per place of the text at which a dangerous pattern matches
issues_of_every_match(patch) ==
    UNION {{<<dangerous_patterns[k].pattern, i>> :
               i \in {j \in 1..(Len(patch) + 1) :
                          \E pat \in dangerous_patterns[k].regex :
                              MatchHere(pat, 1, patch, j)}} :
           k \in DOMAIN dangerous_patterns}

\* one entry per pattern that re.search finds somewhere in the text
issues_of(patch) ==
    {dangerous_patterns[k].pattern :
         k \in {j \in DOMAIN dangerous_patterns :
                    re_search(dangerous_patterns[j].regex, patch)}}
warnings_of(patch) ==
    {mistake_patterns[k].pattern :
         k \in {j \in DOMAIN mistake_patterns :
                    re_search(mistake_patterns[j].regex, patch)}}

\* validate_patch_safety that takes a text for safe by its score
validate_patch_safety_by_score(patch) ==
    LET issues == Cardinality(issues_of(patch))
        warnings == Cardinality(warnings_of(patch))
        raw == 10 - (issues * 3 + warnings * 1)
    IN [is_safe |-> raw > 7,
        safety_score |-> IF raw < 0 THEN 0 ELSE raw,
        issues |-> issues_of(patch),
        warnings |-> warnings_of(patch),
        recommendation |-> IF issues = 0 THEN "safe" ELSE "review_required"]

\* validate_patch_safety without max(0.0, safety_score)
validate_patch_safety_unclamped(patch) ==
    LET issues == Cardinality(issues_of(patch))
        warnings == Cardinality(warnings_of(patch))
        raw == 10 - (issues * 3 + warnings * 1)
    IN [is_safe |-> issues = 0,
        safety_score |-> raw,
        issues |-> issues_of(patch),
        warnings |-> warnings_of(patch),
        recommendation |-> IF issues = 0 THEN "safe" ELSE "review_required"]

\* the scores are in tenths: 1.0 is 10, the weights 0.3 and 0.1 are 3 and 1
validate_patch_safety(patch) ==
    LET issues == Cardinality(issues_of(patch))
        warnings == Cardinality(warnings_of(patch))
        raw == 10 - (issues * 3 + warnings * 1)
    IN [is_safe |-> issues = 0,
        safety_score |-> IF raw < 0 THEN 0 ELSE raw,
        issues |-> issues_of(patch),
        warnings |-> warnings_of(patch),
        recommendation |-> IF issues = 0 THEN "safe" ELSE "review_required"]

\* validate_patch_format on the lines of the text as it is given
validate_patch_format_unstripped(patch) ==
    IF Len(strip(patch)) = 0
    THEN [valid |-> FALSE, error |-> <<"Empty patch content">>]
    ELSE LET lines == split(patch)
             has_file_headers ==
                 \E i \in DOMAIN lines : StartsWithFileHeader(lines[i])
             has_chunk_headers ==
                 \E i \in DOMAIN lines : StartsWithAtAt(lines[i])
             chunk_errors ==
                 {i \in DOMAIN lines : StartsWithAtAt(lines[i])
                                       /\ ~MatchesChunkHeader(lines[i])}
         IN IF ~(has_file_headers /\ has_chunk_headers)
            THEN [valid |-> FALSE, error |-> <<"Invalid diff format">>]
            ELSE IF chunk_errors # {}
            THEN [valid |-> FALSE,
                  error |-> <<"Invalid chunk headers", chunk_errors>>]
            ELSE [valid |-> TRUE, error |-> <<>>]

\* the line numbers of the error count the lines of the stripped text
validate_patch_format(patch) ==
    IF Len(strip(patch)) = 0
    THEN [valid |-> FALSE, error |-> <<"Empty patch content">>]
    ELSE LET lines == split(strip(patch))
             has_file_headers ==
                 \E i \in DOMAIN lines : StartsWithFileHeader(lines[i])
             has_chunk_headers ==
                 \E i \in DOMAIN lines : StartsWithAtAt(lines[i])
             chunk_errors ==
                 {i \in DOMAIN lines : StartsWithAtAt(lines[i])
                                       /\ ~MatchesChunkHeader(lines[i])}
         IN IF ~(has_file_headers /\ has_chunk_headers)
            THEN [valid |-> FALSE, error |-> <<"Invalid diff format">>]
            ELSE IF chunk_errors # {}
            THEN [valid |-> FALSE,
                  error |-> <<"Invalid chunk headers", chunk_errors>>]
            ELSE [valid |-> TRUE, error |-> <<>>]

(* ------------------------- PatchParser -------------------------------- *)
\* the text from position k on: string[k-1:]
From(string, k) == SubSeq(string, k, Len(string))

\* int() of a string of decimal digits
RECURSIVE int(_)
int(digits) ==
    IF Len(digits) = 0 THEN 0
    ELSE int(SubSeq(digits, 1, Len(digits) - 1)) * 10
             + (CHOOSE i \in DOMAIN Digits :
                    Digits[i] = digits[Len(digits)]) - 1

\* the position after the longest run of digits that starts at position i
RECURSIVE DigitsEnd(_, _)
DigitsEnd(string, i) ==
    IF i <= Len(string) /\ string[i] \in DigitSet
    THEN DigitsEnd(string, i + 1) ELSE i

\* (\d+)(?:,(\d+))? at position i: the start, the count (1 when the group
\* is absent) and the position after the match
ChunkRange(string, i) ==
    LET e1 == DigitsEnd(string, i)
        comma == e1 <= Len(string) /\ string[e1] = ","
        e2 == IF comma THEN DigitsEnd(string, e1 + 1) ELSE e1
    IN [matched |-> e1 > i /\ (comma => e2 > e1 + 1),
        start |-> int(SubSeq(string, i, e1 - 1)),
        count |-> IF comma THEN int(SubSeq(string, e1 + 1, e2 - 1)) ELSE 1,
        end |-> e2]

NoChunkInfo == [matched |-> FALSE, old_start |-> 0, old_count |-> 0,
                new_start |-> 0, new_count |-> 0]

\* re.match(r'@@ -(\d+)(?:,(\d+))? \+(\d+)(?:,(\d+))? @@', header)
_parse_chunk_header(header) ==
    IF ~startswith(header, <<"@", "@", " ", "-">>) THEN NoChunkInfo
    ELSE LET old == ChunkRange(header, Len(<<"@", "@", " ", "-">>) + 1)
         IN IF ~(old.matched /\ startswith(From(header, old.end), <<" ",
                                                                    "+">>))
            THEN NoChunkInfo
            ELSE LET new == ChunkRange(header, old.end + Len(<<" ", "+">>))
                 IN IF ~(new.matched
                         /\ startswith(From(header, new.end), <<" ", "@",
                                                                "@">>))
                    THEN NoChunkInfo
                    ELSE [matched |-> TRUE,
                          old_start |-> old.start, old_count |-> old.count,
                          new_start |-> new.start, new_count |-> new.count]

\* parse_unified_diff, lines 73-86, without the count of the file
content_line_uncounted(st, line) ==
    LET n == Len(st.current[1].chunks)
    IN IF startswith(line, <<"+">>)
       THEN [st EXCEPT
               !.current[1].chunks[n].lines =
                   Append(@, [type |-> "addition", content |-> Tail(line)]),
               !.total_additions = @ + 1]
       ELSE IF startswith(line, <<"-">>)
       THEN [st EXCEPT
               !.current[1].chunks[n].lines =
                   Append(@, [type |-> "deletion", content |-> Tail(line)]),
               !.total_deletions = @ + 1]
       ELSE [st EXCEPT
               !.current[1].chunks[n].lines =
                   Append(@, [type |-> "context",
                              content |-> IF startswith(line, <<" ">>)
                                          THEN Tail(line) ELSE line])]

\* parse_unified_diff, lines 73-86: a content line of the last chunk of the
\* current file
content_line(st, line) ==
    LET n == Len(st.current[1].chunks)
    IN IF startswith(line, <<"+">>)
       THEN [st EXCEPT
               !.current[1].chunks[n].lines =
                   Append(@, [type |-> "addition", content |-> Tail(line)]),
               !.current[1].additions = @ + 1,
               !.total_additions = @ + 1]
       ELSE IF startswith(line, <<"-">>)
       THEN [st EXCEPT
               !.current[1].chunks[n].lines =
                   Append(@, [type |-> "deletion", content |-> Tail(line)]),
               !.current[1].deletions = @ + 1,
               !.total_deletions = @ + 1]
       ELSE [st EXCEPT
               !.current[1].chunks[n].lines =
                   Append(@, [type |-> "context",
                              content |-> IF startswith(line, <<" ">>)
                                          THEN Tail(line) ELSE line])]

\* parse_unified_diff, lines 41-86: one turn of the loop.  st.current is
\* current_file: empty for None, else the one file being read.
parse_line(st, line) ==
    IF startswith(line, <<"-", "-", "-", " ", "a", "/">>)
    THEN [st EXCEPT
            !.files = st.files \o st.current,
            !.current = <<[old_path |->
                               From(line,
                                    Len(<<"-", "-", "-", " ", "a", "/">>)
                                        + 1),
                           new_path |-> None,
                           chunks |-> <<>>,
                           additions |-> 0,
                           deletions |-> 0]>>]
    ELSE IF startswith(line, <<"+", "+", "+", " ", "b", "/">>)
    THEN IF Len(st.current) > 0
         THEN [st EXCEPT
                 !.current[1].new_path = From(line, Len(<<"+", "+", "+",
                                                          " ", "b", "/">>) + 1)]
         ELSE st
    ELSE IF startswith(line, <<"@", "@">>)
    THEN LET chunk_info == _parse_chunk_header(line)
         IN IF Len(st.current) > 0 /\ chunk_info.matched
            THEN [st EXCEPT
                    !.current[1].chunks =
                        Append(@, [header |-> line,
                                   old_start |-> chunk_info.old_start,
                                   old_count |-> chunk_info.old_count,
                                   new_start |-> chunk_info.new_start,
                                   new_count |-> chunk_info.new_count,
                                   lines |-> <<>>])]
            ELSE st
    ELSE IF Len(st.current) > 0 /\ Len(st.current[1].chunks) > 0
    THEN content_line(st, line)
    ELSE st

RECURSIVE parse_lines(_, _, _)
parse_lines(st, lines, k) ==
    IF k > Len(lines) THEN st
    ELSE parse_lines(parse_line(st, lines[k]), lines, k + 1)

parse_unified_diff(diff_content) ==
    LET lines == split(strip(diff_content))
        st == parse_lines([files |-> <<>>, current |-> <<>>,
                           total_additions |-> 0, total_deletions |-> 0],
                          lines, 1)
        files == st.files \o st.current
    IN [files |-> files,
        total_additions |-> st.total_additions,
        total_deletions |-> st.total_deletions,
        total_files |-> Len(files)]

(* ----------------------- ProposalService gate -------------------------- *)
\* validate_proposal_safety without its confidence check
validate_proposal_safety_any_confidence(patch, confidence) ==
    LET safety_result == validate_patch_safety(patch)
        format_result == validate_patch_format(patch)
    IN [is_safe |-> safety_result.is_safe /\ format_result.valid,
        issues |-> (IF ~safety_result.is_safe THEN {"security"} ELSE {})
                   \cup (IF ~format_result.valid THEN {"format"} ELSE {})]

validate_proposal_safety(patch, confidence) ==
    LET safety_result == validate_patch_safety(patch)
        format_result == validate_patch_format(patch)
        confidence_check == confidence >= ConfidenceThreshold
    IN [is_safe |-> safety_result.is_safe /\ format_result.valid
                    /\ confidence_check,
        issues |-> (IF ~safety_result.is_safe THEN {"security"} ELSE {})
                   \cup (IF ~format_result.valid THEN {"format"} ELSE {})
                   \cup (IF ~confidence_check THEN {"confidence"} ELSE {})]

\* generate_preview: the parsed files, the summary and the safety gate of
\* the stored patch; nothing is written.  The patch is parsed once and
\* validated once, and the preview is built from the two results.
generate_preview(patch, confidence) ==
    CHOOSE preview \in
        {[files |-> parsed_diff.total_files,
          summary |-> [additions |-> parsed_diff.total_additions,
                       deletions |-> parsed_diff.total_deletions],
          can_apply |-> safety_validation.is_safe] :
             parsed_diff \in {parse_unified_diff(patch)},
             safety_validation \in
                 {validate_proposal_safety(patch, confidence)}} : TRUE

(* ------------------------------ git command --------------------------- *)
GitOutcomes == {"ok", "fail", "timeout"}

\* the result dictionary of one external git process.  What the process
\* does (exit status 0, another exit status, no answer within the timeout)
\* is an input; the dictionary is built from it as lines 360-380 build it.
_run_git_command(outcome) ==
    CASE outcome = "ok" ->
           [success |-> TRUE, error |-> "", returncode |-> 0]
      [] outcome = "fail" ->
           [success |-> FALSE, error |-> "stderr", returncode |-> 1]
      [] outcome = "timeout" ->
           [success |-> FALSE,
            error |-> "Command timed out after 30 seconds",
            returncode |-> 0 - 1]

(* ------------------------------- state -------------------------------- *)
\* patch_diff        Proposal.patch_diff
\* confidence_score  Proposal.confidence_score, in tenths
\* db                the persisted proposal row
\* req               per request: position and locals of its handler;
\*                   failed_on is not a local of the code: it keeps what
\*                   the git command did whose failure ended the attempt
\* workspaces        clone directories that exist under work_dir
\* remote            what the hosting provider has received
\* out               what the last call of a function of patch_utils returned
VARIABLES patch_diff, confidence_score, db, req, workspaces, remote, out,
          webhook

vars == <<patch_diff, confidence_score, db, req, workspaces, remote, out,
         webhook>>

NoResult == [success |-> FALSE, error |-> <<>>, commit_sha |-> None,
             pr_url |-> None]
NoResponse == [status |-> 0, success |-> FALSE, message |-> "", pr_url |-> None]

Ok(commit_sha, pr_url) ==
    [success |-> TRUE, error |-> <<>>, commit_sha |-> commit_sha,
     pr_url |-> pr_url]
Fail(error) ==
    [success |-> FALSE, error |-> error, commit_sha |-> None, pr_url |-> None]

\* the locals of a handler that has not started
Idle == [pc |-> "idle", mode |-> "none", obj_status |-> None,
         obj_pr_url |-> None, repo_id |-> 0, repo_path |-> 0,
         ops |-> <<>>, failed_on |-> "none", commit_result |-> NoResult,
         result |-> NoResult, response |-> NoResponse]
\* a handler that has returned: its locals are gone, its response is sent
Done(response) == [Idle EXCEPT !.pc = "done", !.response = response]

\* no function of patch_utils has been called
NoCall == [fn |-> "none"]
Call(fn, result) == [fn |-> fn, result |-> result]

\* the webhook secrets of the settings and the last webhook request: no
\* secret configured (core/config.py: ""), nothing received
NoWebhook == [GITHUB_WEBHOOK_SECRET |-> <<>>, GITLAB_WEBHOOK_SECRET |-> <<>>,
              payload |-> <<>>, presented |-> <<>>]

\* a stored PENDING proposal, no request under way
Stored ==
    /\ db = [status |-> PENDING, commit_sha |-> None, pr_url |-> None,
             validation_errors |-> None, application_log |-> None]
    /\ req = [r \in Requests |-> Idle]
    /\ workspaces = {}
    /\ remote = [target_pushes |-> 0, branch_pushes |-> 0, prs |-> 0,
                 mrs |-> 0]
    /\ out = NoCall
    /\ webhook = NoWebhook

Init ==
    /\ patch_diff \in PatchTexts
    /\ confidence_score \in Confidences
    /\ Stored

Op(name, ok) == [op |-> name, ok |-> ok]
Did(r, name) == \E i \in DOMAIN req[r].ops : req[r].ops[i].op = name
DidOk(r, name) ==
    \E i \in DOMAIN req[r].ops : req[r].ops[i] = Op(name, TRUE)
DidFail(r, name) ==
    \E i \in DOMAIN req[r].ops : req[r].ops[i] = Op(name, FALSE)

ApplyHttp500 == [status |-> 500, success |-> FALSE,
                 message |-> "Failed to apply proposal", pr_url |-> None]

RejectHttp500 == [status |-> 500, success |-> FALSE,
            message |-> "Failed to reject proposal", pr_url |-> None]

(* --------------------------- api/v1/proposals ------------------------- *)
Response(status, success, message, pr_url) ==
    [status |-> status, success |-> success, message |-> message,
     pr_url |-> pr_url]

\* apply_proposal up to its first await on a service: load the proposal,
\* (found: what _get_proposal_by_id, the load of the persistence layer,
\* answers: the proposal of this user, or None on any error)
\* refuse a status other than PENDING, choose the branch of the request.
\* An HTTPException raised inside the try block is caught by the handler's
\* own except clause and leaves as a 500.
apply_proposal(r, auto_apply, create_pr, found) ==
    /\ req[r].pc = "idle"
    /\ IF ~found \/ db.status # PENDING
       THEN req' = [req EXCEPT ![r] = Done(ApplyHttp500)]
       ELSE LET mode == IF auto_apply THEN "direct"
                        ELSE IF create_pr THEN "pr" ELSE "mark"
            IN req' = [req EXCEPT ![r].pc = mode, ![r].mode = mode,
                                  ![r].obj_status = db.status]
    /\ UNCHANGED <<webhook, out, patch_diff, confidence_score, db, workspaces,
                   remote>>

\* the else branch of apply_proposal: "Just mark as applied"
mark_applied(r, commit_ok) ==
    /\ req[r].pc = "mark"
    /\ IF commit_ok
       THEN /\ db' = [db EXCEPT !.status = APPLIED]
            /\ req' = [req EXCEPT ![r] =
                          Done(Response(200, TRUE,
                                        "Proposal marked as applied", None))]
       ELSE /\ db' = db
            /\ req' = [req EXCEPT ![r] = Done(ApplyHttp500)]
    /\ UNCHANGED <<webhook, out, patch_diff, confidence_score, workspaces,
                   remote>>

\* the response of apply_proposal after a service call: the result of the
\* service is not inspected.
apply_proposal_response(mode, result) ==
    IF mode = "direct"
    THEN Response(200, TRUE, "Proposal applied successfully", None)
    ELSE Response(200, TRUE, "Pull request created successfully",
                  result.pr_url)

apply_proposal_respond(r) ==
    /\ req[r].pc = "respond"
    /\ req' = [req EXCEPT ![r] =
                  Done(apply_proposal_response(req[r].mode, req[r].result))]
    /\ UNCHANGED <<webhook, out, patch_diff, confidence_score, db, workspaces,
                   remote>>

\* reject_proposal up to its commit: load the proposal
reject_proposal(r, found) ==
    /\ req[r].pc = "idle"
    /\ IF found
       THEN req' = [req EXCEPT ![r].pc = "reject", ![r].mode = "reject",
                               ![r].obj_status = db.status]
       ELSE req' = [req EXCEPT ![r] = Done(RejectHttp500)]
    /\ UNCHANGED <<webhook, out, patch_diff, confidence_score, db, workspaces,
                   remote>>

\* a reject_proposal that also blanks the stored patch text
reject_commit_clearing_patch(r, commit_ok) ==
    /\ req[r].pc = "reject"
    /\ IF commit_ok
       THEN /\ db' = [db EXCEPT !.status = REJECTED]
            /\ patch_diff' = <<>>
            /\ req' = [req EXCEPT ![r] =
                          Done(Response(200, TRUE,
                                        "Proposal rejected successfully",
                                        None))]
       ELSE /\ db' = db
            /\ patch_diff' = patch_diff
            /\ req' = [req EXCEPT ![r] = Done(RejectHttp500)]
    /\ UNCHANGED <<webhook, out, confidence_score, workspaces, remote>>

\* proposal.status = REJECTED; await db.commit().  The unit of work writes
\* the column only when the attribute differs from the loaded value.
reject_commit(r, commit_ok) ==
    /\ req[r].pc = "reject"
    /\ IF commit_ok
       THEN /\ db' = IF req[r].obj_status # REJECTED
                     THEN [db EXCEPT !.status = REJECTED] ELSE db
            /\ req' = [req EXCEPT ![r] =
                          Done(Response(200, TRUE,
                                        "Proposal rejected successfully",
                                        None))]
       ELSE /\ db' = db
            /\ req' = [req EXCEPT ![r] = Done(RejectHttp500)]
    /\ UNCHANGED <<webhook, out, patch_diff, confidence_score, workspaces,
                   remote>>

PreviewHttp500 == [status |-> 500, success |-> FALSE,
                   message |-> "Failed to generate preview", pr_url |-> None]

\* preview_proposal: load the proposal, build the preview, answer.  No
\* attribute is assigned and nothing is committed.
preview_proposal(r, found) ==
    /\ req[r].pc = "idle"
    /\ req' = [req EXCEPT ![r] =
                  IF ~found THEN Done(PreviewHttp500)
                  ELSE Done([status |-> 200,
                             preview |-> generate_preview(patch_diff,
                                                          confidence_score)])]
    /\ UNCHANGED <<webhook, out, patch_diff, confidence_score, db, workspaces,
                   remote>>

(* ------------------------ services/git_operations --------------------- *)
Log(r, name, ok) == Append(req[r].ops, Op(name, ok))
\* what is kept of a git command that ends the attempt when it fails
FailedOn(outcome) == IF outcome = "ok" THEN "none" ELSE outcome

\* where a workflow continues after its workspace was cleaned up
AfterCleanup(r, result) ==
    IF req[r].mode = "pr" /\ result.success THEN "pr_post" ELSE "respond"

\* str(uuid.uuid4())[:8]: a name that no directory has yet, taken to be the
\* least one, or by accident the name of a directory that exists
FreshId == CHOOSE i \in WorkspaceIds :
               /\ i \notin workspaces
               /\ \A j \in WorkspaceIds : j < i => j \in workspaces

\* clone_repository: a fresh uuid prefix names the clone directory; git
\* refuses a destination that exists; a clone that ran into the timeout
\* leaves its directory behind; None is returned on every failure.
clone_repository(r, repo_id, outcome) ==
    /\ req[r].pc = "clone"
    /\ repo_id \in workspaces \cup {FreshId}
    /\ LET done == IF repo_id \in workspaces THEN "fail" ELSE outcome
           result == _run_git_command(done)
       IN /\ workspaces' =
                 IF result.success \/ result.returncode = 0 - 1
                 THEN workspaces \cup {repo_id} ELSE workspaces
          /\ req' = [req EXCEPT
                       ![r].repo_id = repo_id,
                       ![r].repo_path = IF result.success THEN repo_id ELSE 0,
                       ![r].ops = Log(r, "clone", result.success),
                       ![r].failed_on = FailedOn(done),
                       ![r].result =
                           IF result.success THEN req[r].result
                           ELSE Fail(<<"Failed to clone repository">>),
                       ![r].pc =
                           IF ~result.success THEN "respond"
                           ELSE IF req[r].mode = "pr" THEN "branch"
                           ELSE "dryrun"]
    /\ UNCHANGED <<webhook, out, patch_diff, confidence_score, db, remote>>

\* create_branch: git checkout base; git checkout -b name
create_branch(r, outcome) ==
    /\ req[r].pc = "branch"
    /\ LET result == _run_git_command(outcome)
       IN req' = [req EXCEPT
                    ![r].ops = Log(r, "createBranch", result.success),
                    ![r].failed_on = FailedOn(outcome),
                    ![r].result =
                        IF result.success THEN req[r].result
                        ELSE Fail(<<"Failed to create branch">>),
                    ![r].pc = IF result.success THEN "dryrun" ELSE "cleanup"]
    /\ UNCHANGED <<webhook, out, patch_diff, confidence_score, db, workspaces,
                   remote>>

\* apply_patch that carries on after a failed dry run
apply_patch_validated_unchecked(validation_result) ==
    [pc |-> "backup", result |-> NoResult]

\* apply_patch, lines 128-135: what follows the dry run
apply_patch_validated(validation_result) ==
    IF ~validation_result.valid
    THEN [pc |-> "cleanup",
          result |-> Fail(<<"Invalid patch", validation_result.error>>)]
    ELSE [pc |-> "backup", result |-> NoResult]

\* _validate_patch: git apply --check
_validate_patch(r, outcome) ==
    /\ req[r].pc = "dryrun"
    /\ LET result == _run_git_command(outcome)
           validation_result ==
               [valid |-> result.success,
                error |-> IF ~result.success THEN result.error ELSE None]
           next == apply_patch_validated(validation_result)
       IN req' = [req EXCEPT
                    ![r].ops = Log(r, "dryrun", result.success),
                    ![r].failed_on = FailedOn(outcome),
                    ![r].result = next.result,
                    ![r].pc = next.pc]
    /\ UNCHANGED <<webhook, out, patch_diff, confidence_score, db, workspaces,
                   remote>>

\* _create_backup: git stash push; the result of the stash is not looked at
_create_backup(r, outcome) ==
    /\ req[r].pc = "backup"
    /\ LET stash_result == _run_git_command(outcome)
       IN req' = [req EXCEPT
                    ![r].ops = Log(r, "backup", stash_result.success),
                    ![r].pc = "apply"]
    /\ UNCHANGED <<webhook, out, patch_diff, confidence_score, db, workspaces,
                   remote>>

\* apply_patch, lines 142-171: write temp_patch.diff, git apply --index,
\* remove the file.  os_error: open() or os.remove() raised, which the
\* except clause turns into a failure without a rollback.
apply_patch(r, outcome, os_error) ==
    /\ req[r].pc = "apply"
    /\ LET apply_result == _run_git_command(outcome)
       IN IF os_error
          THEN req' = [req EXCEPT ![r].result = Fail(<<"OSError">>),
                                  ![r].pc = "cleanup"]
          ELSE req' = [req EXCEPT
                         ![r].ops = Log(r, "apply", apply_result.success),
                         ![r].failed_on = FailedOn(outcome),
                         ![r].result =
                             IF apply_result.success THEN NoResult
                             ELSE Fail(<<"Failed to apply patch",
                                         apply_result.error>>),
                         ![r].pc = IF apply_result.success THEN "commit"
                                   ELSE "rollback"]
    /\ UNCHANGED <<webhook, out, patch_diff, confidence_score, db, workspaces,
                   remote>>

\* _rollback_from_backup: git reset --hard HEAD
_rollback_from_backup(r, outcome) ==
    /\ req[r].pc = "rollback"
    /\ LET reset_result == _run_git_command(outcome)
       IN req' = [req EXCEPT
                    ![r].ops = Log(r, "restore", reset_result.success),
                    ![r].pc = "cleanup"]
    /\ UNCHANGED <<webhook, out, patch_diff, confidence_score, db, workspaces,
                   remote>>

\* commit_changes that does not return when staging failed
commit_changes_result_unstaged(add, commit, sha) ==
    IF ~_run_git_command(add).success \/ _run_git_command(commit).success
    THEN Ok(IF _run_git_command(sha).success THEN "sha" ELSE None, None)
    ELSE Fail(<<_run_git_command(commit).error>>)

\* the result of commit_changes from the outcomes of git add, git commit
\* and git rev-parse HEAD
commit_changes_result(add, commit, sha) ==
    IF ~_run_git_command(add).success
    THEN Fail(<<"Failed to stage changes">>)
    ELSE IF ~_run_git_command(commit).success
    THEN Fail(<<_run_git_command(commit).error>>)
    ELSE Ok(IF _run_git_command(sha).success THEN "sha" ELSE None, None)

\* commit_changes: git config (twice), git add ., git commit, git rev-parse.
\* The commands run on the request's own clone, one after the other.
commit_changes(r, add, commit, sha) ==
    /\ req[r].pc = "commit"
    /\ ~_run_git_command(add).success => commit = "ok" /\ sha = "ok"
    /\ ~_run_git_command(commit).success => sha = "ok"
    /\ LET commit_result == commit_changes_result(add, commit, sha)
       IN req' = [req EXCEPT
                    ![r].ops =
                        IF _run_git_command(add).success
                        THEN Log(r, "commit", _run_git_command(commit).success)
                        ELSE req[r].ops,
                    ![r].failed_on =
                        IF ~_run_git_command(add).success
                        THEN FailedOn(add) ELSE FailedOn(commit),
                    ![r].commit_result = commit_result,
                    ![r].result =
                        IF commit_result.success THEN NoResult
                        ELSE Fail(commit_result.error),
                    ![r].pc = IF commit_result.success THEN "push"
                              ELSE "cleanup"]
    /\ UNCHANGED <<webhook, out, patch_diff, confidence_score, db, workspaces,
                   remote>>

\* push_branch: git push -u origin <branch>; the default branch in direct
\* mode, the proposal's own branch for a pull request
push_branch(r, outcome) ==
    /\ req[r].pc = "push"
    /\ LET push_result == _run_git_command(outcome)
       IN /\ remote' =
                 IF ~push_result.success THEN remote
                 ELSE IF req[r].mode = "direct"
                 THEN [remote EXCEPT !.target_pushes = @ + 1]
                 ELSE [remote EXCEPT !.branch_pushes = @ + 1]
          /\ req' = [req EXCEPT
                       ![r].ops = Log(r, "push", push_result.success),
                       ![r].failed_on = FailedOn(outcome),
                       ![r].result =
                           IF ~push_result.success
                           THEN Fail(<<push_result.error>>)
                           ELSE IF req[r].mode = "direct" THEN NoResult
                           ELSE Ok(req[r].commit_result.commit_sha, None),
                       ![r].pc =
                           IF push_result.success /\ req[r].mode = "direct"
                           THEN "update" ELSE "cleanup"]
    /\ UNCHANGED <<webhook, out, patch_diff, confidence_score, db, workspaces>>

\* cleanup_repository in the finally clause: shutil.rmtree, whose failure
\* is logged and swallowed
cleanup_repository(r, rmtree_ok) ==
    /\ req[r].pc = "cleanup"
    /\ workspaces' = IF rmtree_ok THEN workspaces \ {req[r].repo_path}
                     ELSE workspaces
    /\ req' = [req EXCEPT
                 ![r].ops = Log(r, "cleanup", req[r].repo_path \notin workspaces'),
                 ![r].pc = AfterCleanup(r, req[r].result)]
    /\ UNCHANGED <<webhook, out, patch_diff, confidence_score, db, remote>>

(* ----------------------- services/proposal_service -------------------- *)
\* apply_proposal_direct, lines 84-93: the gate before the clone
apply_proposal_direct(r) ==
    /\ req[r].pc = "direct"
    /\ LET validation_result ==
               validate_proposal_safety(patch_diff, confidence_score)
       IN req' = [req EXCEPT
                    ![r].result =
                        IF ~validation_result.is_safe
                        THEN Fail(<<"Proposal failed safety validation",
                                    validation_result.issues>>)
                        ELSE NoResult,
                    ![r].pc = IF ~validation_result.is_safe THEN "respond"
                              ELSE "clone"]
    /\ UNCHANGED <<webhook, out, patch_diff, confidence_score, db, workspaces,
                   remote>>

\* apply_proposal_direct, lines 137-155: UPDATE proposals SET status =
\* APPLIED, commit_sha = ... WHERE id = ...; commit.  An exception of the
\* database leaves through the finally clause and the outer except.
update_proposal_status(r, commit_ok) ==
    /\ req[r].pc = "update"
    /\ IF commit_ok
       THEN /\ db' = [db EXCEPT !.status = APPLIED,
                                !.commit_sha = req[r].commit_result.commit_sha]
            /\ req' = [req EXCEPT
                         ![r].result =
                             Ok(req[r].commit_result.commit_sha, None),
                         ![r].pc = "cleanup"]
       ELSE /\ db' = db
            /\ req' = [req EXCEPT ![r].result = Fail(<<"DBAPIError">>),
                                  ![r].pc = "cleanup"]
    /\ UNCHANGED <<webhook, out, patch_diff, confidence_score, workspaces,
                   remote>>

(* ------------------------ services/github_service --------------------- *)
\* create_proposal_pr, lines 115-132: no validation precedes the clone
create_proposal_pr(r) ==
    /\ req[r].pc = "pr"
    /\ req' = [req EXCEPT ![r].pc = "clone"]
    /\ UNCHANGED <<webhook, out, patch_diff, confidence_score, db, workspaces,
                   remote>>

\* create_proposal_pr, lines 154-186: POST /repos/{owner}/{repo}/pulls.
\* The pull request is recorded on the loaded object only; the status is
\* assigned to itself and nothing is committed.
create_proposal_pr_post(r, http_status) ==
    /\ req[r].pc = "pr_post"
    /\ remote' = IF http_status = 201 THEN [remote EXCEPT !.prs = @ + 1]
                 ELSE remote
    /\ req' = [req EXCEPT
                 ![r].obj_pr_url = IF http_status = 201 THEN "html_url" ELSE @,
                 ![r].result =
                     IF http_status = 201
                     THEN Ok(req[r].commit_result.commit_sha, "html_url")
                     ELSE Fail(<<"GitHub API error", http_status>>),
                 ![r].pc = "respond"]
    /\ UNCHANGED <<webhook, out, patch_diff, confidence_score, db, workspaces>>

(* ------------------------ services/gitlab_service --------------------- *)
\* create_proposal_mr, lines 110-124: name the branch, call the helper
create_proposal_mr(r) ==
    /\ req[r].pc = "idle"
    /\ req' = [req EXCEPT ![r].pc = "mr_base", ![r].mode = "mr"]
    /\ UNCHANGED <<webhook, out, patch_diff, confidence_score, db, workspaces,
                   remote>>

\* _create_branch_with_changes, lines 176-186: GET .../branches/main.  The
\* helper returns False on another answer than 200; its caller does not
\* look at what it returns and goes on to the merge request.
_create_branch_with_changes_get(r, http_status) ==
    /\ req[r].pc = "mr_base"
    /\ req' = [req EXCEPT
                 ![r].ops = IF http_status = 200 THEN @
                            ELSE Log(r, "createBranch", FALSE),
                 ![r].pc = IF http_status = 200 THEN "mr_branch"
                           ELSE "mr_post"]
    /\ UNCHANGED <<webhook, out, patch_diff, confidence_score, db, workspaces,
                   remote>>

\* _create_branch_with_changes, lines 188-209: POST .../repository/branches
\* with the sha of main.  The patch is not applied to the branch: "For now,
\* we'll just create the branch".
_create_branch_with_changes_post(r, http_status) ==
    /\ req[r].pc = "mr_branch"
    /\ req' = [req EXCEPT
                 ![r].ops = Log(r, "createBranch", http_status = 201),
                 ![r].pc = "mr_post"]
    /\ UNCHANGED <<webhook, out, patch_diff, confidence_score, db, workspaces,
                   remote>>

\* create_proposal_mr, lines 126-159: POST .../merge_requests
create_proposal_mr_post(r, http_status) ==
    /\ req[r].pc = "mr_post"
    /\ remote' = IF http_status = 201 THEN [remote EXCEPT !.mrs = @ + 1]
                 ELSE remote
    /\ req' = [req EXCEPT
                 ![r].ops = Log(r, "reviewRequest", http_status = 201),
                 ![r].result =
                     IF http_status = 201 THEN Ok(None, "web_url")
                     ELSE Fail(<<"Failed to create merge request">>),
                 ![r].pc = "returned"]
    /\ UNCHANGED <<webhook, out, patch_diff, confidence_score, db, workspaces>>

(* ------------------------- webhook verification ---------------------- *)
\* the characters of secrets, tokens and digests; the texts of at most n
\* of them
TokenChars == {"0", "1"}
MaxTokenLen == 2
Strings(n) == UNION {[1..k -> TokenChars] : k \in 0..n}
Payloads == {<<"{", "}">>, <<"[", "1", "]">>}
Sha256Prefix == <<"s", "h", "a", "2", "5", "6", "=">>
\* what a caller can send as X-Hub-Signature-256
Signatures ==
    Strings(MaxTokenLen) \cup {Sha256Prefix \o d : d \in Strings(MaxTokenLen)}

\* hmac.new(key, msg, hashlib.sha256).hexdigest(): a keyed digest of fixed
\* length.  SHA-256 is stood in for by a digest of MaxTokenLen digits that
\* depends on every character of the key and on the message.
hexdigest(key, msg) ==
    [i \in 1..MaxTokenLen |->
        LET ones == Cardinality({k \in DOMAIN key : key[k] = "1"})
        IN IF (ones + Len(msg) + i) % 2 = 0 THEN "0" ELSE "1"]

\* a comparison that stops at the first position where the texts differ,
\* as == on strings does
compare_digest_until_difference(a, b) ==
    LET same == {n \in 0..Len(b) :
                    /\ n <= Len(a)
                    /\ \A i \in 1..n : a[i] = b[i]}
        n == CHOOSE m \in same : \A k \in same : k <= m
    IN [equal |-> a = b,
        compared |-> IF n < Len(b) /\ n < Len(a) THEN n + 1 ELSE n]

\* hmac.compare_digest(a, b): every position of b is compared, with a when
\* the lengths agree and with b itself when they do not; the differences
\* are accumulated and looked at once, after the last position.
compare_digest(a, b) ==
    LET left == IF Len(a) = Len(b) THEN a ELSE b
        differences == {i \in DOMAIN b : left[i] # b[i]}
    IN [equal |-> Len(a) = Len(b) /\ differences = {},
        compared |-> Len(b)]

NotVerified == [is_valid |-> FALSE, compared |-> 0]
Verified(comparison) ==
    [is_valid |-> comparison.equal, compared |-> comparison.compared]

\* api/v1/webhooks.verify_github_signature
verify_github_signature(payload, signature) ==
    IF webhook.GITHUB_WEBHOOK_SECRET = <<>> THEN NotVerified
    ELSE LET stripped == IF startswith(signature, Sha256Prefix)
                         THEN From(signature, Len(Sha256Prefix) + 1)
                         ELSE signature
             expected_signature ==
                 hexdigest(webhook.GITHUB_WEBHOOK_SECRET, payload)
         IN Verified(compare_digest(stripped, expected_signature))

\* api/v1/webhooks.verify_gitlab_token
verify_gitlab_token(token) ==
    IF webhook.GITLAB_WEBHOOK_SECRET = <<>> THEN NotVerified
    ELSE Verified(compare_digest(token, webhook.GITLAB_WEBHOOK_SECRET))

\* GitHubService.verify_webhook_signature
verify_webhook_signature(payload, signature) ==
    IF webhook.GITHUB_WEBHOOK_SECRET = <<>> THEN NotVerified
    ELSE LET expected_signature ==
                 Sha256Prefix
                     \o hexdigest(webhook.GITHUB_WEBHOOK_SECRET, payload)
         IN Verified(compare_digest(signature, expected_signature))

\* GitLabService.verify_webhook_token
verify_webhook_token(token) ==
    IF webhook.GITLAB_WEBHOOK_SECRET = <<>> THEN NotVerified
    ELSE Verified(compare_digest(token, webhook.GITLAB_WEBHOOK_SECRET))

\* a webhook request has been received and one of the functions decides
Receive(payload, presented) ==
    webhook' = [webhook EXCEPT !.payload = payload, !.presented = presented]

\* github_webhook, lines 46-70: a request without the header is refused
\* before anything is compared
github_webhook(payload, signature) ==
    /\ Receive(payload, signature)
    /\ out' = Call("github_webhook",
                   IF signature = <<>> THEN NotVerified
                   ELSE verify_github_signature(payload, signature))
    /\ UNCHANGED <<patch_diff, confidence_score, db, req, workspaces, remote>>

\* gitlab_webhook, lines 118-142
gitlab_webhook(payload, token) ==
    /\ Receive(payload, token)
    /\ out' = Call("gitlab_webhook",
                   IF token = <<>> THEN NotVerified
                   ELSE verify_gitlab_token(token))
    /\ UNCHANGED <<patch_diff, confidence_score, db, req, workspaces, remote>>

GitHubService_verify_webhook_signature(payload, signature) ==
    /\ Receive(payload, signature)
    /\ out' = Call("verify_webhook_signature",
                   verify_webhook_signature(payload, signature))
    /\ UNCHANGED <<patch_diff, confidence_score, db, req, workspaces, remote>>

GitLabService_verify_webhook_token(payload, token) ==
    /\ Receive(payload, token)
    /\ out' = Call("verify_webhook_token", verify_webhook_token(token))
    /\ UNCHANGED <<patch_diff, confidence_score, db, req, workspaces, remote>>

(* ------------------------------ system -------------------------------- *)
\* the steps of a handler after it has taken up its request
Step ==
    \/ \E r \in Requests, commit_ok \in BOOLEAN : reject_commit(r, commit_ok)
    \/ \E r \in Requests, commit_ok \in BOOLEAN : mark_applied(r, commit_ok)
    \/ \E r \in Requests : apply_proposal_direct(r)
    \/ \E r \in Requests : create_proposal_pr(r)
    \/ \E r \in Requests, repo_id \in WorkspaceIds, outcome \in GitOutcomes :
          clone_repository(r, repo_id, outcome)
    \/ \E r \in Requests, outcome \in GitOutcomes : create_branch(r, outcome)
    \/ \E r \in Requests, outcome \in GitOutcomes : _validate_patch(r, outcome)
    \/ \E r \in Requests, outcome \in GitOutcomes : _create_backup(r, outcome)
    \/ \E r \in Requests, outcome \in GitOutcomes, os_error \in BOOLEAN :
          apply_patch(r, outcome, os_error)
    \/ \E r \in Requests, outcome \in GitOutcomes :
          _rollback_from_backup(r, outcome)
    \/ \E r \in Requests, add \in GitOutcomes, commit \in GitOutcomes,
          sha \in GitOutcomes : commit_changes(r, add, commit, sha)
    \/ \E r \in Requests, outcome \in GitOutcomes : push_branch(r, outcome)
    \/ \E r \in Requests, commit_ok \in BOOLEAN :
          update_proposal_status(r, commit_ok)
    \/ \E r \in Requests, rmtree_ok \in BOOLEAN :
          cleanup_repository(r, rmtree_ok)
    \/ \E r \in Requests, http_status \in {201, 422} :
          create_proposal_pr_post(r, http_status)
    \/ \E r \in Requests : apply_proposal_respond(r)

\* requests arrive at any time: the handlers interleave at their awaits
Next ==
    \/ \E r \in Requests, auto_apply \in BOOLEAN, create_pr \in BOOLEAN,
          found \in BOOLEAN : apply_proposal(r, auto_apply, create_pr, found)
    \/ \E r \in Requests, found \in BOOLEAN : reject_proposal(r, found)
    \/ \E r \in Requests, found \in BOOLEAN : preview_proposal(r, found)
    \/ Step

Spec == Init /\ [][Next]_vars

\* the same handlers served one at a time: a request is taken up only when
\* no other handler is between its first and its last step
NoneInFlight == \A q \in Requests : req[q].pc \in {"idle", "done"}

NextSeq ==
    \/ \E r \in Requests, auto_apply \in BOOLEAN, create_pr \in BOOLEAN,
          found \in BOOLEAN :
          NoneInFlight /\ apply_proposal(r, auto_apply, create_pr, found)
    \/ \E r \in Requests, found \in BOOLEAN :
          NoneInFlight /\ reject_proposal(r, found)
    \/ \E r \in Requests, found \in BOOLEAN :
          NoneInFlight /\ preview_proposal(r, found)
    \/ Step

SpecSeq == Init /\ [][NextSeq]_vars

\* the merge request service of GitLab, called for the stored proposal by
\* any number of callers at a time
NextGitLab ==
    \/ \E r \in Requests : create_proposal_mr(r)
    \/ \E r \in Requests, http_status \in {200, 404} :
          _create_branch_with_changes_get(r, http_status)
    \/ \E r \in Requests, http_status \in {201, 400} :
          _create_branch_with_changes_post(r, http_status)
    \/ \E r \in Requests, http_status \in {201, 409} :
          create_proposal_mr_post(r, http_status)

SpecGitLab == Init /\ [][NextGitLab]_vars

\* the webhook endpoints and the verification functions of the services
\* under every configuration of the two secrets
InitWebhook ==
    /\ patch_diff = GoodPatch
    /\ confidence_score = ConfidenceThreshold
    /\ db = [status |-> PENDING, commit_sha |-> None, pr_url |-> None,
             validation_errors |-> None, application_log |-> None]
    /\ req = [r \in Requests |-> Idle]
    /\ workspaces = {}
    /\ remote = [target_pushes |-> 0, branch_pushes |-> 0, prs |-> 0,
                 mrs |-> 0]
    /\ out = NoCall
    /\ \E github \in Strings(MaxTokenLen), gitlab \in Strings(MaxTokenLen) :
          webhook = [NoWebhook EXCEPT !.GITHUB_WEBHOOK_SECRET = github,
                                      !.GITLAB_WEBHOOK_SECRET = gitlab]

NextWebhook ==
    \/ \E payload \in Payloads, signature \in Signatures :
          github_webhook(payload, signature)
    \/ \E payload \in Payloads, token \in Strings(MaxTokenLen) :
          gitlab_webhook(payload, token)
    \/ \E payload \in Payloads, signature \in Signatures :
          GitHubService_verify_webhook_signature(payload, signature)
    \/ \E payload \in Payloads, token \in Strings(MaxTokenLen) :
          GitLabService_verify_webhook_token(payload, token)

SpecWebhook == InitWebhook /\ [][NextWebhook]_vars

(* ----------------- the functions of patch_utils alone ----------------- *)
\* the texts of at most n lines taken from a set of lines
Texts(lines, n) ==
    {join(s) : s \in UNION {[1..k -> lines] : k \in 0..n}}

PatchValidator_validate_patch_safety ==
    /\ out = NoCall
    /\ out' = Call("validate_patch_safety", validate_patch_safety(patch_diff))
    /\ UNCHANGED <<webhook, patch_diff, confidence_score, db, req, workspaces,
                 remote>>

PatchValidator_validate_patch_format ==
    /\ out = NoCall
    /\ out' = Call("validate_patch_format", validate_patch_format(patch_diff))
    /\ UNCHANGED <<webhook, patch_diff, confidence_score, db, req, workspaces,
                 remote>>

PatchParser_parse_unified_diff ==
    /\ out = NoCall
    /\ out' = Call("parse_unified_diff", parse_unified_diff(patch_diff))
    /\ UNCHANGED <<webhook, patch_diff, confidence_score, db, req, workspaces,
                 remote>>

\* validate_patch_safety on every text of at most MaxSafetyLines lines
InitSafety ==
    /\ patch_diff \in PatchTexts \cup Texts(SafetyLines, MaxSafetyLines)
    /\ confidence_score = ConfidenceThreshold
    /\ Stored

NextSafety == PatchValidator_validate_patch_safety

SpecSafety == InitSafety /\ [][NextSafety]_vars

\* validate_patch_format and parse_unified_diff on every text of at most
\* MaxDiffLines lines
InitDiff ==
    /\ patch_diff \in PatchTexts \cup Texts(DiffLines, MaxDiffLines)
    /\ confidence_score = ConfidenceThreshold
    /\ Stored

NextDiff ==
    \/ PatchValidator_validate_patch_format
    \/ PatchParser_parse_unified_diff

SpecDiff == InitDiff /\ [][NextDiff]_vars

(* ------------------------------ claims -------------------------------- *)
\* every execution of operation b comes after an execution of operation a
Precedes(r, a, b) ==
    \A i \in DOMAIN req[r].ops :
        req[r].ops[i].op = b => \E j \in 1..(i - 1) : req[r].ops[j].op = a
\* the service call of request r has returned to apply_proposal
Returned(r) == req[r].pc = "respond"

\* C1: no workspace operation (clone, createBranch, dry run, backup, apply,
\* commit, push) is executed, in either mode, for a proposal whose patch
\* fails format validation or safety validation.
C1_NoWorkspaceOpForInvalidPatch ==
    \A r \in Requests :
        req[r].ops # <<>> =>
            /\ validate_patch_format(patch_diff).valid
            /\ validate_patch_safety(patch_diff).is_safe

\* C2: of two apply requests on the same PENDING proposal exactly one
\* executes the apply workflow; the other performs no workspace operation.
C2_OnlyOneApplyExecutes ==
    \A r1, r2 \in Requests :
        r1 # r2 => ~(req[r1].ops # <<>> /\ req[r2].ops # <<>>)

\* C3: every change of the persisted status is an edge of the state
\* machine PENDING->VALIDATING->APPLYING->{APPLIED, REVIEW_REQUESTED}, with
\* REJECTED from PENDING/VALIDATING and FAILED from VALIDATING/APPLYING.
StateMachineEdges ==
    {<<PENDING, VALIDATING>>, <<VALIDATING, APPLYING>>,
     <<APPLYING, APPLIED>>, <<APPLYING, PR_CREATED>>,
     <<PENDING, REJECTED>>, <<VALIDATING, REJECTED>>,
     <<VALIDATING, FAILED>>, <<APPLYING, FAILED>>}
C3_StatusChangesAreEdges ==
    [][db'.status # db.status =>
           <<db.status, db'.status>> \in StateMachineEdges]_vars

\* C4: APPLIED, REVIEW_REQUESTED, REJECTED and FAILED are terminal: once
\* the persisted status is one of them no request changes it.
TerminalStates == {APPLIED, PR_CREATED, REJECTED, FAILED}
C4_TerminalStatusNeverChanges ==
    [][db.status \in TerminalStates => db'.status = db.status]_vars

\* C5: every apply attempt that fails finishes with the persisted status
\* FAILED and a non-empty diagnostic in the persisted proposal.
C5_FailureIsPersisted ==
    \A r \in Requests :
        (Returned(r) /\ ~req[r].result.success) =>
            /\ db.status = FAILED
            /\ (db.validation_errors # None \/ db.application_log # None)

\* C6: when a step fails after the backup checkpoint was taken and before
\* the push is confirmed, restore is executed before the failure is
\* reported to the caller.
C6_RestoreBeforeFailureReported ==
    \A r \in Requests :
        (Returned(r) /\ ~req[r].result.success /\ Did(r, "backup")
         /\ (DidFail(r, "apply") \/ DidFail(r, "commit") \/ DidFail(r, "push")))
            => Did(r, "restore")

\* C7: an attempt that started a clone executes cleanup on every exit path,
\* as the last operation on its workspace, and the workspace is gone when
\* the attempt returns.
C7_CleanupOnEveryExit ==
    \A r \in Requests :
        (req[r].pc \in {"respond", "pr_post"} /\ Did(r, "clone")) =>
            req[r].ops[Len(req[r].ops)] = Op("cleanup", TRUE)

\* C8: within one attempt backup precedes the real apply, the real apply
\* precedes commit and commit precedes push: no operation of the chain is
\* executed unless every earlier one was executed in the same attempt.
C8_OperationOrder ==
    \A r \in Requests :
        /\ Precedes(r, "backup", "apply")
        /\ Precedes(r, "apply", "commit")
        /\ Precedes(r, "commit", "push")
C8_Witness == \E r \in Requests : DidOk(r, "push")

\* C9: when the dry run fails the attempt aborts: no backup, no real apply,
\* no commit and no push is executed in it, and the failure returned is
\* the diagnostic of the dry run.
C9_DryRunFailureAborts ==
    \A r \in Requests :
        DidFail(r, "dryrun") =>
            /\ ~Did(r, "backup") /\ ~Did(r, "apply")
            /\ ~Did(r, "commit") /\ ~Did(r, "push")
            /\ ~req[r].result.success
            /\ \E outcome \in GitOutcomes \ {"ok"} :
                   req[r].result.error =
                       <<"Invalid patch", _run_git_command(outcome).error>>
C9_Witness == \E r \in Requests : DidFail(r, "dryrun") /\ Returned(r)

\* C10: a direct apply in which the gate passes and every operation
\* reports success ends with status APPLIED and a non-empty commit_sha,
\* and in every state a proposal that is APPLIED has a non-empty commit_sha.
C10_AppliedHasCommitSha ==
    /\ db.status = APPLIED => db.commit_sha # None
    /\ \A r \in Requests :
          (Returned(r) /\ req[r].mode = "direct" /\ DidOk(r, "push")) =>
              (db.status = APPLIED /\ db.commit_sha # None)


\* C11: when an apply in review-request mode has pushed its branch and the
\* provider accepted the review request, the persisted proposal has status
\* PR_CREATED (review requested) and carries the URL of the review request.
C11_ReviewRequestIsPersisted ==
    \A r \in Requests :
        (Returned(r) /\ req[r].mode = "pr" /\ req[r].result.success
         /\ DidOk(r, "push"))
            => (db.status = PR_CREATED /\ db.pr_url # None)

\* C13: in every apply attempt the status APPLYING is persisted before the
\* first workspace operation: the step that runs the clone starts from a
\* persisted status of APPLYING.
C13_ApplyingPersistedBeforeClone ==
    [][\A r \in Requests :
          (req[r].pc = "clone" /\ req'[r].pc # "clone")
              => db.status = APPLYING]_vars

\* C20: two attempts that are in flight at the same time never hold the
\* same generated workspace identifier.
C20_DistinctWorkspaceIds ==
    \A r1 \in Requests, r2 \in Requests :
        (/\ r1 # r2
         /\ req[r1].pc \notin {"idle", "done"}
         /\ req[r2].pc \notin {"idle", "done"}
         /\ req[r1].repo_id # 0
         /\ req[r2].repo_id # 0)
            => req[r1].repo_id # req[r2].repo_id


\* C12: a proposal whose confidence score is below 0.7 never passes the gate
\* of the direct apply: no workspace operation is executed for it and the
\* attempt returns a failure that names the confidence, even when the patch
\* is well formed and safe; a score of exactly 0.7 with such a patch passes
\* the gate and reaches the clone.
C12_LowConfidenceNeverApplies ==
    \A r \in Requests :
        req[r].mode = "direct" =>
            /\ confidence_score < ConfidenceThreshold =>
                   /\ req[r].pc \in {"direct", "respond"}
                   /\ req[r].ops = <<>>
                   /\ Returned(r) =>
                          /\ ~req[r].result.success
                          /\ req[r].result.error[1] =
                                 "Proposal failed safety validation"
                          /\ "confidence" \in req[r].result.error[2]
            /\ (/\ confidence_score = ConfidenceThreshold
                /\ Returned(r)
                /\ ~Did(r, "clone"))
                   => ~(/\ validate_patch_format(patch_diff).valid
                        /\ validate_patch_safety(patch_diff).is_safe)
C12_Witness ==
    \E r \in Requests :
        /\ req[r].mode = "direct"
        /\ Returned(r)
        /\ confidence_score < ConfidenceThreshold
        /\ validate_patch_format(patch_diff).valid
        /\ validate_patch_safety(patch_diff).is_safe
        /\ ~req[r].result.success


\* C19: a workspace operation that ran into the timeout is reported to its
\* caller as a timeout, apart from a semantic failure: an attempt that ended
\* because a git command timed out returns an error that carries the
\* timeout message of _run_git_command.
C19_TimeoutIsDistinguishable ==
    \A r \in Requests :
        (Returned(r) /\ req[r].failed_on = "timeout")
            => \E i \in DOMAIN req[r].result.error :
                   req[r].result.error[i] = _run_git_command("timeout").error


(* ------------------- claims about patch_utils ------------------------- *)
\* the text holds the characters of sub, one after the other
contains(text, sub) ==
    \E i \in 1..(Len(text) - Len(sub) + 1) :
        SubSeq(text, i, i + Len(sub) - 1) = sub

RECURSIVE Sum(_)
Sum(numbers) ==
    IF Len(numbers) = 0 THEN 0 ELSE numbers[1] + Sum(Tail(numbers))

\* the lines of a kind that the chunks of a file record hold
CountType(file, type) ==
    Sum([c \in DOMAIN file.chunks |->
            Cardinality({j \in DOMAIN file.chunks[c].lines :
                             file.chunks[c].lines[j].type = type})])

\* C14: validate_patch_safety returns is_safe = true exactly when its list
\* of issues is empty, which is exactly when no dangerous pattern matches
\* the raw text; a text that contains `rm -rf` is not safe and has an
\* issue; the recommendation is "safe" when is_safe holds and
\* "review_required" otherwise.
C14_SafeExactlyWhenNoIssue ==
    out.fn = "validate_patch_safety" =>
        LET matching ==
                {k \in DOMAIN dangerous_patterns :
                     re_search(dangerous_patterns[k].regex, patch_diff)}
        IN /\ out.result.is_safe = (out.result.issues = {})
           /\ (out.result.issues = {}) = (matching = {})
           /\ contains(patch_diff, <<"r", "m", " ", "-", "r", "f">>) =>
                  ~out.result.is_safe /\ out.result.issues # {}
           /\ out.result.recommendation =
                  IF out.result.is_safe THEN "safe" ELSE "review_required"
C14_Witness ==
    /\ out.fn = "validate_patch_safety"
    /\ contains(patch_diff, <<"r", "m", " ", "-", "r", "f">>)
    /\ ~out.result.is_safe

C16_FormatRulesOnTheText ==
    out.fn = "validate_patch_format" =>
        LET lines == split(patch_diff)
            blank == \A i \in DOMAIN patch_diff : patch_diff[i] \in Whitespace
            headers ==
                /\ \E i \in DOMAIN lines : startswith(lines[i], <<"-", "-",
                                                                  "-", " ">>)
                /\ \E i \in DOMAIN lines : startswith(lines[i], <<"@", "@">>)
            bad == {i \in DOMAIN lines :
                        /\ startswith(lines[i], <<"@", "@">>)
                        /\ ~_parse_chunk_header(lines[i]).matched}
        IN /\ out.result.valid = (~blank /\ headers /\ bad = {})
           /\ blank => out.result.error = <<"Empty patch content">>
           /\ (~blank /\ ~headers) =>
                  out.result.error = <<"Invalid diff format">>
           /\ (~blank /\ headers /\ bad # {}) =>
                  out.result.error = <<"Invalid chunk headers", bad>>

\* C16, amended: validate_patch_format decides on the lines of the text
\* without its leading and trailing whitespace, and the line numbers of
\* the error count the lines of that stripped text.
C16_FormatRulesOnTheStrippedText ==
    out.fn = "validate_patch_format" =>
        LET lines == split(strip(patch_diff))
            blank == \A i \in DOMAIN patch_diff : patch_diff[i] \in Whitespace
            headers ==
                /\ \E i \in DOMAIN lines : startswith(lines[i], <<"-", "-",
                                                                  "-", " ">>)
                /\ \E i \in DOMAIN lines : startswith(lines[i], <<"@", "@">>)
            bad == {i \in DOMAIN lines :
                        /\ startswith(lines[i], <<"@", "@">>)
                        /\ ~_parse_chunk_header(lines[i]).matched}
        IN /\ out.result.valid = (~blank /\ headers /\ bad = {})
           /\ blank => out.result.error = <<"Empty patch content">>
           /\ (~blank /\ ~headers) =>
                  out.result.error = <<"Invalid diff format">>
           /\ (~blank /\ headers /\ bad # {}) =>
                  out.result.error = <<"Invalid chunk headers", bad>>
\* a text that begins with whitespace and has a bad chunk header
C16_Witness ==
    /\ out.fn = "validate_patch_format"
    /\ Len(patch_diff) > 0
    /\ patch_diff[1] \in Whitespace
    /\ ~out.result.valid
    /\ out.result.error[1] = "Invalid chunk headers"

\* C17: in the result of parse_unified_diff total_additions is the sum of
\* the additions of the files, total_deletions the sum of their deletions,
\* total_files the number of file records, and the additions and deletions
\* of a file are the numbers of addition and deletion lines that its
\* chunks hold.
C17_TotalsAreSums ==
    out.fn = "parse_unified_diff" =>
        LET files == out.result.files
        IN /\ out.result.total_additions =
                  Sum([f \in DOMAIN files |-> files[f].additions])
           /\ out.result.total_deletions =
                  Sum([f \in DOMAIN files |-> files[f].deletions])
           /\ out.result.total_files = Len(files)
           /\ \A f \in DOMAIN files :
                  /\ files[f].additions = CountType(files[f], "addition")
                  /\ files[f].deletions = CountType(files[f], "deletion")
C17_Witness ==
    /\ out.fn = "parse_unified_diff"
    /\ out.result.total_files > 1
    /\ out.result.total_additions + out.result.total_deletions > 0

\* C18: every chunk of a diff that parse_unified_diff returns holds as many
\* lines as its header says: context and deletion lines make up old_count,
\* context and addition lines make up new_count.
C18_ChunkCountsMatchHeader ==
    out.fn = "parse_unified_diff" =>
        \A f \in DOMAIN out.result.files :
            \A c \in DOMAIN out.result.files[f].chunks :
                LET chunk == out.result.files[f].chunks[c]
                    n(type) == Cardinality({j \in DOMAIN chunk.lines :
                                                chunk.lines[j].type = type})
                IN /\ n("context") + n("deletion") = chunk.old_count
                   /\ n("context") + n("addition") = chunk.new_count

(* ------------------ claims on the proposal workflow, II ---------------- *)
\* C21: no operation on a proposal (apply in either mode, mark as applied,
\* reject, preview, the validation gate) changes the stored patch text: the
\* text is the same before and after every step, hence the same in every
\* state after the status has left PENDING.
C21_PatchTextNeverChanges == [][patch_diff' = patch_diff]_vars

\* the status has left PENDING and a preview of the proposal was served
C21_Witness ==
    /\ db.status \in {APPLIED, REJECTED}
    /\ \E r \in Requests :
          /\ req[r].pc = "done"
          /\ req[r].response.status = 200
          /\ "preview" \in DOMAIN req[r].response

\* C23: the persisted status becomes APPLIED only in an attempt whose clone,
\* apply, commit and push have all succeeded, whatever the flags of the
\* request were.
C23_AppliedOnlyAfterPush ==
    [][(db.status # APPLIED /\ db'.status = APPLIED) =>
          \E r \in Requests :
             /\ req'[r] # req[r]
             /\ DidOk(r, "clone") /\ DidOk(r, "apply")
             /\ DidOk(r, "commit") /\ DidOk(r, "push")]_vars

\* C28: the response of apply reports success only when the service that
\* was asked to apply the proposal (directly or as a pull request) returned
\* success; after a failed service call the response says success = false.
C28_SuccessOnlyWhenApplied ==
    [][\A r \in Requests :
          (req[r].pc = "respond" /\ req'[r].pc = "done") =>
             (req'[r].response.success => req[r].result.success)]_vars

\* C29: git apply runs in a workspace only after the backup (git stash) of
\* that attempt has itself succeeded.
C29_ApplyOnlyAfterBackup ==
    \A r \in Requests : Did(r, "apply") => DidOk(r, "backup")

\* C30: when a direct apply has returned and its push had succeeded, the
\* persisted status is APPLIED: no state has the target branch updated, the
\* attempt finished and the status still PENDING.
C30_PushedImpliesApplied ==
    \A r \in Requests :
       (req[r].mode = "direct" /\ Returned(r) /\ DidOk(r, "push")) =>
          db.status # PENDING

(* --------------------- claims on patch_utils, II ----------------------- *)
\* the result of parse_unified_diff when it caught an exception
ParseError == [files |-> <<>>, total_additions |-> 0, total_deletions |-> 0,
               total_files |-> 0]

\* C25: every text that validate_patch_format accepts is structured by
\* parse_unified_diff: the result has at least one file record, and every
\* line that begins with `@@` has become a chunk of some file record.
C25_FormatValidIsStructured ==
    (out.fn = "parse_unified_diff" /\ validate_patch_format(patch_diff).valid)
    => LET lines == split(strip(patch_diff))
           files == out.result.files
       IN /\ Len(files) >= 1
          /\ Sum([f \in DOMAIN files |-> Len(files[f].chunks)]) =
                 Cardinality({k \in DOMAIN lines : StartsWithAtAt(lines[k])})

\* C26: when a line of the text begins with `@@` and is not a chunk header,
\* parse_unified_diff reports an error: it does not return file records in
\* which the line was skipped and the lines after it were given to the
\* chunk before it or dropped.
C26_BadChunkHeaderIsAnError ==
    out.fn = "parse_unified_diff" =>
        LET lines == split(strip(patch_diff))
        IN (\E k \in DOMAIN lines :
               /\ StartsWithAtAt(lines[k])
               /\ ~_parse_chunk_header(lines[k]).matched)
           => out.result = ParseError

\* the places of a text at which a match of the regular expression begins
MatchStarts(regex, string) ==
    {i \in 1..(Len(string) + 1) :
         \E pat \in regex : MatchHere(pat, 1, string, i)}

\* the number of matches that a list of patterns has in a text
Matches(patterns, text) ==
    Sum([k \in DOMAIN patterns |->
            Cardinality(MatchStarts(patterns[k].regex, text))])

\* the patterns of a list that match somewhere in a text
Matching(patterns, text) ==
    {k \in DOMAIN patterns : MatchStarts(patterns[k].regex, text) # {}}

\* C27, as the claim has it: validate_patch_safety records one issue for
\* every match of a dangerous pattern and one warning for every match of a
\* mistake pattern: a text with k matches has k entries.
C27_OneEntryPerMatch ==
    out.fn = "validate_patch_safety" =>
        /\ Cardinality(out.result.issues) =
               Matches(dangerous_patterns, patch_diff)
        /\ Cardinality(out.result.warnings) =
               Matches(mistake_patterns, patch_diff)

\* C27, amended: validate_patch_safety records one issue for every dangerous
\* pattern that matches the text at least once and one warning for every
\* mistake pattern that matches at least once, however many matches the
\* pattern has.
C27_OneEntryPerMatchingPattern ==
    out.fn = "validate_patch_safety" =>
        /\ Cardinality(out.result.issues) =
               Cardinality(Matching(dangerous_patterns, patch_diff))
        /\ Cardinality(out.result.warnings) =
               Cardinality(Matching(mistake_patterns, patch_diff))
        /\ out.result.issues =
               {dangerous_patterns[k].pattern :
                    k \in Matching(dangerous_patterns, patch_diff)}

\* a dangerous pattern matches twice in the text and has one issue
C27_Witness ==
    /\ out.fn = "validate_patch_safety"
    /\ \E k \in DOMAIN dangerous_patterns :
          Cardinality(MatchStarts(dangerous_patterns[k].regex, patch_diff)) = 2
    /\ Cardinality(out.result.issues) = 1

(* ----------------- claims on the proposal workflow, III ---------------- *)
\* C24: for both providers the request that opens the review request (pull
\* request of GitHub, merge request of GitLab) is sent only by an attempt
\* whose branch was created, whose patch was applied and committed and
\* whose branch was pushed, each with success.
C24_ReviewRequestOnlyAfterPush ==
    [][\A r \in Requests :
          (req[r].pc \in {"pr_post", "mr_post"} /\ req'[r].pc # req[r].pc)
          => /\ DidOk(r, "createBranch") /\ DidOk(r, "apply")
             /\ DidOk(r, "commit") /\ DidOk(r, "push")]_vars

(* -------------------- claims on webhook verification ------------------- *)
\* what the function that was called answers for another presented value
VerifyAgain(presented) ==
    CASE out.fn = "github_webhook" ->
           IF presented = <<>> THEN NotVerified
           ELSE verify_github_signature(webhook.payload, presented)
      [] out.fn = "gitlab_webhook" ->
           IF presented = <<>> THEN NotVerified
           ELSE verify_gitlab_token(presented)
      [] out.fn = "verify_webhook_signature" ->
           verify_webhook_signature(webhook.payload, presented)
      [] out.fn = "verify_webhook_token" -> verify_webhook_token(presented)

\* the value that the presented value is compared with
Expected ==
    IF out.fn \in {"github_webhook", "verify_webhook_signature"}
    THEN Sha256Prefix
             \o hexdigest(webhook.GITHUB_WEBHOOK_SECRET, webhook.payload)
    ELSE webhook.GITLAB_WEBHOOK_SECRET

\* the number of leading characters of a text that agree with another
CorrectLeading(text, expected) ==
    LET same == {n \in 0..Len(expected) :
                    /\ n <= Len(text)
                    /\ \A i \in 1..n : text[i] = expected[i]}
    IN CHOOSE m \in same : \A k \in same : k <= m

\* C22: the verification of a webhook (signature of GitHub, token of
\* GitLab) compares the presented value with the expected one in constant
\* time: the number of positions compared is the same for every presented
\* value of the same length, however many of its leading characters are
\* correct.
C22_ComparisonIndependentOfGuess ==
    out.fn \in {"github_webhook", "gitlab_webhook",
                "verify_webhook_signature", "verify_webhook_token"} =>
        \A other \in Signatures :
            Len(other) = Len(webhook.presented) =>
                VerifyAgain(other).compared = out.result.compared

\* a refused signature of GitHub whose first digit is right and whose
\* last digit is wrong, while another signature of the same length has
\* no digit right
C22_Witness ==
    /\ out.fn = "github_webhook"
    /\ webhook.GITHUB_WEBHOOK_SECRET # <<>>
    /\ Len(webhook.presented) = Len(Expected)
    /\ CorrectLeading(webhook.presented, Expected) = Len(Expected) - 1
    /\ ~out.result.is_valid
    /\ \E other \in Signatures :
          /\ Len(other) = Len(webhook.presented)
          /\ CorrectLeading(other, Expected) = Len(Sha256Prefix)

====
